---- MODULE Spec2Model ----
(***************************************************************************)
(* Model of mysql_api.mysql_database.MySQLDatabase: a facade that wraps    *)
(* every CRUD call on one table in "with self.session() as session:" and   *)
(* a try / commit / except DatabaseError / rollback pattern.               *)
(*                                                                         *)
(* One caller thread, one mapped table with the columns id (primary key,   *)
(* auto increment), status and created_at.  The table is a sequence of     *)
(* rows in the order the backend yields them.                              *)
(***************************************************************************)
EXTENDS Integers, Sequences, FiniteSets, TLC

\* ------------------------------------------------------------------ bounds
MaxId == 3          \* largest primary key value explored
MaxRows == 3        \* largest number of rows in the table
MaxBatch == 2       \* longest add_data_multiple batch
MaxPage == 3        \* largest page number passed to query_data_page
MaxPageSize == 2    \* largest page_size passed to query_data_page

\* ------------------------------------------------------------ value model
Columns == {"id", "status", "created_at"}
Status == {"x", "y"}
\* datetimes stored in created_at: a calendar date and an hour of the day
CreatedAts == { [date |-> <<2024, 1, 15>>, hour |-> 9],
                [date |-> <<2024, 1, 16>>, hour |-> 0] }

\* Python None, and an Optional wrapper for arguments that may be None
PyNone == [isNone |-> TRUE]
Some(v) == [isNone |-> FALSE, val |-> v]

Max(a, b) == IF a >= b THEN a ELSE b
Min(a, b) == IF a <= b THEN a ELSE b

Ids(t) == { t[i].id : i \in 1..Len(t) }
MaxIdOf(t) == IF t = <<>> THEN 0 ELSE CHOOSE m \in Ids(t) : \A k \in Ids(t) : k <= m

\* ------------------------------------------------------- text conversions
Digits == <<"0", "1", "2", "3", "4", "5", "6", "7", "8", "9">>
IsDigit(ch) == \E i \in 1..10 : Digits[i] = ch
DigitVal(ch) == (CHOOSE i \in 1..10 : Digits[i] = ch) - 1
AllDigits(s) == Len(s) >= 1 /\ \A i \in 1..Len(s) : IsDigit(s[i])

RECURSIVE DecimalVal(_)
DecimalVal(s) ==
    IF s = <<>> THEN 0
    ELSE 10 * DecimalVal(SubSeq(s, 1, Len(s) - 1)) + DigitVal(s[Len(s)])

\* variant: text that is not a number is read as 0 instead of being rejected
PyIntLenient(x) ==
    IF x.kind = "int" THEN [ok |-> TRUE, val |-> x.num]
    ELSE [ok |-> TRUE, val |-> IF AllDigits(x.chars) THEN DecimalVal(x.chars) ELSE 0]

\* int(record_id): an int is returned as is; a str must be an optional sign
\* followed by decimal digits, anything else raises ValueError.
PyInt(x) ==
    IF x.kind = "int" THEN [ok |-> TRUE, val |-> x.num]
    ELSE LET s == x.chars
             signed == Len(s) >= 1 /\ s[1] \in {"+", "-"}
             body == IF signed THEN Tail(s) ELSE s
         IN  IF AllDigits(body)
             THEN [ok |-> TRUE,
                   val |-> IF signed /\ s[1] = "-" THEN 0 - DecimalVal(body)
                           ELSE DecimalVal(body)]
             ELSE [ok |-> FALSE, val |-> 0]

IsLeap(y) == (y % 4 = 0 /\ y % 100 # 0) \/ y % 400 = 0
DaysIn(y, m) ==
    IF m = 2 THEN (IF IsLeap(y) THEN 29 ELSE 28)
    ELSE IF m \in {4, 6, 9, 11} THEN 30 ELSE 31

Dashes(s) == { i \in 1..Len(s) : s[i] = "-" }

\* datetime.strptime(value, "%Y-%m-%d"): four year digits, one or two month
\* digits, one or two day digits, separated by "-", naming a real calendar
\* day; anything else raises ValueError.
Strptime(s) ==
    LET ds == Dashes(s) IN
    IF Cardinality(ds) # 2 THEN [ok |-> FALSE, date |-> <<0, 0, 0>>]
    ELSE LET d1 == CHOOSE i \in ds : \A j \in ds : i <= j
             d2 == CHOOSE i \in ds : \A j \in ds : j <= i
             ys == SubSeq(s, 1, d1 - 1)
             ms == SubSeq(s, d1 + 1, d2 - 1)
             dd == SubSeq(s, d2 + 1, Len(s))
             shape == /\ Len(ys) = 4 /\ AllDigits(ys)
                      /\ Len(ms) \in {1, 2} /\ AllDigits(ms)
                      /\ Len(dd) \in {1, 2} /\ AllDigits(dd)
         IN  IF /\ shape
                /\ DecimalVal(ys) >= 1
                /\ DecimalVal(ms) \in 1..12
                /\ DecimalVal(dd) \in 1..DaysIn(DecimalVal(ys), DecimalVal(ms))
             THEN [ok |-> TRUE,
                   date |-> <<DecimalVal(ys), DecimalVal(ms), DecimalVal(dd)>>]
             ELSE [ok |-> FALSE, date |-> <<0, 0, 0>>]

\* func.date(column): the calendar date of a stored datetime
FuncDate(dt) == dt.date

\* --------------------------------------------------------- session model
\* An execution context c:
\*   db    committed rows of the table      ai    the AUTO_INCREMENT counter
\*   open  the Session is inside its with block
\*   txn   the Session has a transaction in progress
\*   work  the rows as seen inside that transaction
\*   ev    the Session life cycle events of the current call
SessionEnter(c) == [c EXCEPT !.open = TRUE, !.ev = Append(@, "acquire")]

\* the first statement of a Session begins its transaction
Begin(c) == IF c.txn THEN c ELSE [c EXCEPT !.txn = TRUE, !.work = c.db]

\* variant: the commit ends the transaction without making it durable
SessionCommitLost(c) ==
    [c EXCEPT !.txn = FALSE, !.work = <<>>, !.ev = Append(@, "commit")]

SessionCommit(c) ==
    [c EXCEPT !.db = IF c.txn THEN c.work ELSE c.db,
              !.txn = FALSE, !.work = <<>>, !.ev = Append(@, "commit")]

SessionRollback(c) ==
    [c EXCEPT !.txn = FALSE, !.work = <<>>, !.ev = Append(@, "rollback")]

\* Session.__exit__ closes the Session: a transaction still in progress is
\* discarded and the connection goes back to the pool.
SessionExit(c) ==
    [c EXCEPT !.open = FALSE, !.txn = FALSE, !.work = <<>>,
              !.ev = Append(@, "close")]

\* MySQL commits the transaction in progress before it runs a DDL statement.
ImplicitCommit(c) == [c EXCEPT !.db = c.work]

\* variant: the table is emptied without the ALTER TABLE that resets the counter
AlterKeepsCounter(c, n) == ImplicitCommit(c)

\* ALTER TABLE t AUTO_INCREMENT = n: the counter never goes below max(id)+1
AlterAutoIncrement(c, n) ==
    [ImplicitCommit(c) EXCEPT !.ai = Max(n, MaxIdOf(c.work) + 1)]

Raised(c, exc) == [c |-> c, raised |-> exc, result |-> PyNone]
Returned(c, res) == [c |-> c, raised |-> "none", result |-> res]

\* variant: the Session is closed by hand after the try statement instead of
\* by a with block, so an exception that is not a DatabaseError skips the close
FinishWithoutWith(b, errKind, rollsBack) ==
    LET c1 == IF b.raised = "DatabaseError" /\ rollsBack
              THEN SessionRollback(b.c) ELSE b.c
    IN  [c |-> IF b.raised \in {"none", "DatabaseError"} THEN SessionExit(c1)
               ELSE c1,
         outcome |-> IF b.raised = "none" THEN "ok"
                     ELSE IF b.raised = "DatabaseError" THEN errKind
                     ELSE b.raised,
         result |-> b.result]

\* the except clause and the end of the with block, common to all handlers:
\* a DatabaseError is rolled back (mutating handlers) and re-raised as the
\* handler's error class, any other exception passes through unchanged.
Finish(b, errKind, rollsBack) ==
    LET c1 == IF b.raised = "DatabaseError" /\ rollsBack
              THEN SessionRollback(b.c) ELSE b.c
    IN  [c |-> SessionExit(c1),
         outcome |-> IF b.raised = "none" THEN "ok"
                     ELSE IF b.raised = "DatabaseError" THEN errKind
                     ELSE b.raised,
         result |-> b.result]

\* ------------------------------------------------------------- row access
\* filters are keyword arguments: a sequence of <<column, value>> pairs
Matches(row, filters) ==
    \A i \in 1..Len(filters) : row[filters[i][1]] = filters[i][2]

Select(t, filters) == SelectSeq(t, LAMBDA r : Matches(r, filters))

\* model_cls(**data): a keyword that is not a mapped column raises TypeError
ConstructorOk(data) == DOMAIN data \subseteq Columns

\* INSERT of one instance inside the transaction: the id is the given one or
\* the next AUTO_INCREMENT value; a duplicate primary key is a DatabaseError.
\* The counter is not transactional: it stays advanced after a rollback.
InsertRow(c, data) ==
    LET newId == IF "id" \in DOMAIN data THEN data.id ELSE c.ai
    IN  IF newId \in Ids(c.work) THEN [ok |-> FALSE, c |-> c]
        ELSE [ok |-> TRUE,
              c |-> [c EXCEPT
                       !.work = Append(@, [id |-> newId, status |-> data.status,
                                           created_at |-> data.created_at]),
                       !.ai = Max(@, newId + 1)]]

RECURSIVE InsertAll(_, _)
InsertAll(c, batch) ==
    IF batch = <<>> THEN [ok |-> TRUE, c |-> c]
    ELSE LET r == InsertRow(c, Head(batch))
         IN  IF r.ok THEN InsertAll(r.c, Tail(batch)) ELSE r

ApplyUpdate(row, upd) ==
    LET Val(col) == IF col \in DOMAIN upd THEN upd[col] ELSE row[col]
    IN  [id |-> Val("id"), status |-> Val("status"),
         created_at |-> Val("created_at")]

\* variant: the WHERE clause is dropped and every row is updated
RECURSIVE UpdateWhereAll(_, _, _)
UpdateWhereAll(t, filters, upd) ==
    IF t = <<>> THEN <<>>
    ELSE <<ApplyUpdate(Head(t), upd)>> \o UpdateWhereAll(Tail(t), filters, upd)

RECURSIVE UpdateWhere(_, _, _)
UpdateWhere(t, filters, upd) ==
    IF t = <<>> THEN <<>>
    ELSE <<IF Matches(Head(t), filters) THEN ApplyUpdate(Head(t), upd)
           ELSE Head(t)>> \o UpdateWhere(Tail(t), filters, upd)

\* LIMIT limit OFFSET offset over a result set
LimitOffset(t, limit, offset) ==
    SubSeq(t, offset + 1, Min(offset + limit, Len(t)))

\* ------------------------------------------------------------ the handlers
\* fault names the backend interaction of the call that raises DatabaseError:
\* "none", "execute" (a DML or SELECT statement), "ddl" (ALTER TABLE) or
\* "commit".  Each *_try operator is the body of a handler's try block, run
\* in the context c of the entered Session.

add_data_try(c, data, fault) ==
    IF ~ConstructorOk(data) THEN Raised(c, "TypeError")
    ELSE IF fault = "execute" THEN Raised(Begin(c), "DatabaseError")
    ELSE LET r == InsertRow(Begin(c), data)
         IN  IF ~r.ok \/ fault = "commit" THEN Raised(r.c, "DatabaseError")
             ELSE Returned(SessionCommit(r.c), PyNone)

add_data_run(c, data, fault) ==
    Finish(add_data_try(SessionEnter(c), data, fault), "MySQLAPIAddError", TRUE)

add_data_multiple_try(c, data, fault) ==
    IF \E i \in 1..Len(data) : ~ConstructorOk(data[i])
    THEN Raised(c, "TypeError")
    ELSE IF fault = "execute" THEN Raised(Begin(c), "DatabaseError")
    ELSE LET r == InsertAll(Begin(c), data)
         IN  IF ~r.ok \/ fault = "commit" THEN Raised(r.c, "DatabaseError")
             ELSE Returned(SessionCommit(r.c), PyNone)

add_data_multiple_run(c, data, fault) ==
    Finish(add_data_multiple_try(SessionEnter(c), data, fault),
           "MySQLAPIAddError", TRUE)

\* "if instances := session.query(...).filter_by(...)": a Query object is
\* always true, so the UPDATE and the commit always run.
update_data_try(c, key, key_value, update_values, fault) ==
    IF fault = "execute" THEN Raised(Begin(c), "DatabaseError")
    ELSE LET c1 == Begin(c)
             c2 == [c1 EXCEPT !.work = UpdateWhere(@, <<<<key, key_value>>>>,
                                                   update_values)]
         IN  IF fault = "commit" THEN Raised(c2, "DatabaseError")
             ELSE Returned(SessionCommit(c2), PyNone)

update_data_run(c, key, key_value, update_values, fault) ==
    Finish(update_data_try(SessionEnter(c), key, key_value, update_values, fault),
           "MySQLAPIAddError", TRUE)

update_column_values_try(c, column_name, new_value, fault) ==
    IF fault = "execute" THEN Raised(Begin(c), "DatabaseError")
    ELSE LET c1 == Begin(c)
             upd == [col \in {column_name} |-> new_value]
             c2 == [c1 EXCEPT !.work = UpdateWhere(@, <<>>, upd)]
         IN  IF fault = "commit" THEN Raised(c2, "DatabaseError")
             ELSE Returned(SessionCommit(c2), PyNone)

update_column_values_run(c, column_name, new_value, fault) ==
    Finish(update_column_values_try(SessionEnter(c), column_name, new_value, fault),
           "MySQLAPIUpdateError", TRUE)

query_data_all_try(c, filters, fault) ==
    IF fault = "execute" THEN Raised(Begin(c), "DatabaseError")
    ELSE Returned(Begin(c), Select(Begin(c).work, filters))

query_data_all_run(c, filters, fault) ==
    Finish(query_data_all_try(SessionEnter(c), filters, fault),
           "MySQLAPIQueryError", FALSE)

\* variant: an empty list counts as "no values given"
MembershipAppliesNonEmpty(field, values) ==
    ~field.isNone /\ ~values.isNone /\ values.val # <<>>

\* "field is not None and values is not None"; both are Optional: PyNone
\* or Some(v)
MembershipApplies(field, values) == ~field.isNone /\ ~values.isNone

InValues(row, field, values) ==
    \E i \in 1..Len(values.val) : row[field.val] = values.val[i]

query_data_by_values_try(c, field, values, filters, fault) ==
    IF fault = "execute" THEN Raised(Begin(c), "DatabaseError")
    ELSE LET c1 == Begin(c)
             q1 == IF MembershipApplies(field, values)
                   THEN SelectSeq(c1.work, LAMBDA r : InValues(r, field, values))
                   ELSE c1.work
             q2 == IF filters # <<>> THEN Select(q1, filters) ELSE q1
         IN  Returned(c1, q2)

query_data_by_values_run(c, field, values, filters, fault) ==
    Finish(query_data_by_values_try(SessionEnter(c), field, values, filters, fault),
           "MySQLAPIQueryError", FALSE)

\* Query.first(): the first row of the result set, or None
First(t) == IF t = <<>> THEN PyNone ELSE Head(t)

query_data_one_try(c, filters, fault) ==
    IF fault = "execute" THEN Raised(Begin(c), "DatabaseError")
    ELSE Returned(Begin(c), First(Select(Begin(c).work, filters)))

query_data_one_run(c, filters, fault) ==
    Finish(query_data_one_try(SessionEnter(c), filters, fault),
           "MySQLAPIQueryError", FALSE)

\* variant: the page number is taken as zero based
PageOffsetZeroBased(page, page_size) == page * page_size

PageOffset(page, page_size) == (page - 1) * page_size

query_data_page_try(c, page, page_size, filters, fault) ==
    IF fault = "execute" THEN Raised(Begin(c), "DatabaseError")
    ELSE Returned(Begin(c),
                  LimitOffset(Select(Begin(c).work, filters), page_size,
                              PageOffset(page, page_size)))

query_data_page_run(c, page, page_size, filters, fault) ==
    Finish(query_data_page_try(SessionEnter(c), page, page_size, filters, fault),
           "MySQLAPIQueryError", FALSE)

delete_all_data_try(c, fault) ==
    IF fault = "execute" THEN Raised(Begin(c), "DatabaseError")
    ELSE LET c1 == [Begin(c) EXCEPT !.work = <<>>]
         IN  IF fault = "ddl" THEN Raised(ImplicitCommit(c1), "DatabaseError")
             ELSE LET c2 == AlterAutoIncrement(c1, 1)
                  IN  IF fault = "commit" THEN Raised(c2, "DatabaseError")
                      ELSE Returned(SessionCommit(c2), PyNone)

delete_all_data_run(c, fault) ==
    Finish(delete_all_data_try(SessionEnter(c), fault), "MySQLAPIDeleteError", TRUE)

DeleteId(t, n) == SelectSeq(t, LAMBDA r : r.id # n)

delete_data_by_id_try(c, record_id, fault) ==
    LET n == PyInt(record_id) IN
    IF ~n.ok THEN Raised(c, "ValueError")
    ELSE IF fault = "execute" THEN Raised(Begin(c), "DatabaseError")
    ELSE LET c1 == Begin(c)
             instance == First(Select(c1.work, <<<<"id", n.val>>>>))
         IN  IF instance = PyNone THEN Returned(c1, PyNone)
             ELSE IF fault = "commit"
                  THEN Raised([c1 EXCEPT !.work = DeleteId(@, n.val)],
                              "DatabaseError")
                  ELSE Returned(SessionCommit([c1 EXCEPT !.work = DeleteId(@, n.val)]),
                                PyNone)

delete_data_by_id_run(c, record_id, fault) ==
    Finish(delete_data_by_id_try(SessionEnter(c), record_id, fault),
           "MySQLAPIDeleteError", TRUE)

\* the loop over filters.items(): a created_at value is parsed as it is met
DateParseOk(filters) ==
    \A i \in 1..Len(filters) :
        filters[i][1] = "created_at" => Strptime(filters[i][2]).ok

MatchesWithDate(row, filters) ==
    \A i \in 1..Len(filters) :
        IF filters[i][1] = "created_at"
        THEN FuncDate(row.created_at) = Strptime(filters[i][2]).date
        ELSE row[filters[i][1]] = filters[i][2]

query_data_with_date_try(c, filters, fault) ==
    IF ~DateParseOk(filters) THEN Raised(c, "ValueError")
    ELSE IF fault = "execute" THEN Raised(Begin(c), "DatabaseError")
    ELSE Returned(Begin(c),
                  SelectSeq(Begin(c).work, LAMBDA r : MatchesWithDate(r, filters)))

query_data_with_date_run(c, filters, fault) ==
    Finish(query_data_with_date_try(SessionEnter(c), filters, fault),
           "MySQLAPIQueryError", FALSE)

\* ------------------------------------------------------------------ state
VARIABLES
    rows,       \* the committed rows of the table, in backend order
    autoinc,    \* the table's AUTO_INCREMENT counter
    session,    \* the thread's scoped Session: [open, txn, work]
    events,     \* Session life cycle events of the last call
    call,       \* the last call: [op, args]
    injected,   \* the backend fault injected into the last call
    outcome,    \* "ok" or the class of the exception the last call raised
    result      \* what the last call returned

vars == <<rows, autoinc, session, events, call, injected, outcome, result>>

Ctx == [db |-> rows, ai |-> autoinc, open |-> session.open,
        txn |-> session.txn, work |-> session.work, ev |-> <<>>]

\* calls are synchronous: the thread is either between two calls or holds
\* the outcome of the call that has just ended
NoCall == [op |-> "none", args |-> <<>>]

Init ==
    /\ rows = <<>>
    /\ autoinc = 1
    /\ session = [open |-> FALSE, txn |-> FALSE, work |-> <<>>]
    /\ events = <<>>
    /\ call = NoCall
    /\ injected = "none"
    /\ outcome = "ok"
    /\ result = PyNone

\* the caller observes the end of a call
Complete(op, args, fault, r) ==
    /\ Len(r.c.db) <= MaxRows
    /\ r.c.ai <= MaxId + 1
    /\ rows' = r.c.db
    /\ autoinc' = r.c.ai
    /\ session' = [open |-> r.c.open, txn |-> r.c.txn, work |-> r.c.work]
    /\ events' = r.c.ev
    /\ call' = [op |-> op, args |-> args]
    /\ injected' = fault
    /\ outcome' = r.outcome
    /\ result' = r.result

\* ----------------------------------------------------------------- inputs
RECURSIVE SeqsOfLen(_, _)
SeqsOfLen(S, n) ==
    IF n = 0 THEN {<<>>}
    ELSE { Append(q, x) : q \in SeqsOfLen(S, n - 1), x \in S }

SeqsUpTo(S, n) == UNION { SeqsOfLen(S, k) : k \in 0..n }

At15 == [date |-> <<2024, 1, 15>>, hour |-> 9]
At16 == [date |-> <<2024, 1, 16>>, hour |-> 0]

BadData == [status |-> "x", nickname |-> "n"]

DataInputs ==
    [status : Status, created_at : CreatedAts]
        \cup [id : 1..MaxId, status : Status, created_at : CreatedAts]
        \cup {BadData}

BatchData ==
    { [status |-> "x", created_at |-> At15],
      [id |-> 1, status |-> "y", created_at |-> At16],
      [id |-> 2, status |-> "x", created_at |-> At16],
      BadData }

FilterInputs ==
    { <<>>, << <<"status", "x">> >>, << <<"status", "y">> >>,
      << <<"id", 1>> >>, << <<"id", 2>>, <<"status", "x">> >> }

Str(s) == [kind |-> "str", chars |-> s]
Int_(n) == [kind |-> "int", num |-> n]

RecordIdInputs ==
    { Int_(n) : n \in 1..MaxId }
        \cup { Str(<<"2">>), Str(<<"+", "1">>), Str(<<>>),
               Str(<<"n", "o", "t", "-", "a", "-", "n", "u", "m", "b", "e", "r">>) }

DateTextInputs ==
    { <<"2", "0", "2", "4", "-", "0", "1", "-", "1", "5">>,
      <<"2", "0", "2", "4", "-", "1", "-", "1", "6">>,
      <<"2", "0", "2", "4", "-", "0", "2", "-", "3", "0">>,
      <<"1", "5", "/", "0", "1", "/", "2", "0", "2", "4">>,
      <<"t", "o", "d", "a", "y">> }

DateFilterInputs ==
    { << <<"created_at", d>> >> : d \in DateTextInputs }
        \cup { << <<"status", "x">>, <<"created_at", d>> >> : d \in DateTextInputs }
        \cup { <<>>, << <<"status", "y">> >> }

ValuesInputs ==
    { PyNone, Some(<<>>), Some(<<"x">>), Some(<<"x", "y">>) }

FieldInputs == { PyNone, Some("status") }

\* ---------------------------------------------------------------- actions
add_data ==
    \E data \in DataInputs, fault \in {"none", "execute", "commit"} :
        /\ call = NoCall
        /\ Complete("add_data", [data |-> data], fault, add_data_run(Ctx, data, fault))

add_data_multiple ==
    \E data \in SeqsUpTo(BatchData, MaxBatch),
       fault \in {"none", "execute", "commit"} :
        /\ call = NoCall
        /\ Complete("add_data_multiple", [data |-> data], fault,
                    add_data_multiple_run(Ctx, data, fault))

update_data ==
    \E kv \in { <<"status", s>> : s \in Status } \cup { <<"id", n>> : n \in 1..MaxId },
       new \in Status, fault \in {"none", "execute", "commit"} :
        /\ call = NoCall
        /\ Complete("update_data",
                    [key |-> kv[1], key_value |-> kv[2],
                     update_values |-> [status |-> new]], fault,
                    update_data_run(Ctx, kv[1], kv[2], [status |-> new], fault))

update_column_values ==
    \E new \in Status, fault \in {"none", "execute", "commit"} :
        /\ call = NoCall
        /\ Complete("update_column_values",
                    [column_name |-> "status", new_value |-> new], fault,
                    update_column_values_run(Ctx, "status", new, fault))

query_data_all ==
    \E filters \in FilterInputs, fault \in {"none", "execute"} :
        /\ call = NoCall
        /\ Complete("query_data_all", [filters |-> filters], fault,
                    query_data_all_run(Ctx, filters, fault))

query_data_by_values ==
    \E field \in FieldInputs, values \in ValuesInputs,
       filters \in { <<>>, << <<"id", 1>> >>, << <<"status", "x">> >> },
       fault \in {"none", "execute"} :
        /\ call = NoCall
        /\ Complete("query_data_by_values",
                    [field |-> field, values |-> values, filters |-> filters], fault,
                    query_data_by_values_run(Ctx, field, values, filters, fault))

query_data_one ==
    \E filters \in FilterInputs \cup { << <<"id", n>> >> : n \in 1..MaxId },
       fault \in {"none", "execute"} :
        /\ call = NoCall
        /\ Complete("query_data_one", [filters |-> filters], fault,
                    query_data_one_run(Ctx, filters, fault))

query_data_page ==
    \E page \in 1..MaxPage, page_size \in 1..MaxPageSize,
       filters \in { <<>>, << <<"status", "x">> >> },
       fault \in {"none", "execute"} :
        /\ call = NoCall
        /\ Complete("query_data_page",
                    [page |-> page, page_size |-> page_size, filters |-> filters], fault,
                    query_data_page_run(Ctx, page, page_size, filters, fault))

delete_all_data ==
    \E fault \in {"none", "execute", "ddl", "commit"} :
        /\ call = NoCall
        /\ Complete("delete_all_data", <<>>, fault, delete_all_data_run(Ctx, fault))

delete_data_by_id ==
    \E record_id \in RecordIdInputs, fault \in {"none", "execute", "commit"} :
        /\ call = NoCall
        /\ Complete("delete_data_by_id", [record_id |-> record_id], fault,
                    delete_data_by_id_run(Ctx, record_id, fault))

query_data_with_date ==
    \E filters \in DateFilterInputs, fault \in {"none", "execute"} :
        /\ call = NoCall
        /\ Complete("query_data_with_date", [filters |-> filters], fault,
                    query_data_with_date_run(Ctx, filters, fault))

\* the caller takes the outcome and is free to make the next call
Return ==
    /\ call # NoCall
    /\ call' = NoCall
    /\ injected' = "none"
    /\ outcome' = "ok"
    /\ result' = PyNone
    /\ events' = <<>>
    /\ UNCHANGED <<rows, autoinc, session>>

Next ==
    \/ Return
    \/ add_data
    \/ add_data_multiple
    \/ update_data
    \/ update_column_values
    \/ query_data_all
    \/ query_data_by_values
    \/ query_data_one
    \/ query_data_page
    \/ delete_all_data
    \/ delete_data_by_id
    \/ query_data_with_date

Spec == Init /\ [][Next]_vars

TypeOK ==
    /\ Len(rows) <= MaxRows
    /\ autoinc \in 1..(MaxId + 1)
    /\ autoinc > MaxIdOf(rows)
    /\ Cardinality(Ids(rows)) = Len(rows)

\* ----------------------------------------------------------------- claims
Mutating ==
    {"add_data", "add_data_multiple", "update_data", "update_column_values",
     "delete_all_data", "delete_data_by_id"}

TypedErrors ==
    {"MySQLAPIAddError", "MySQLAPIUpdateError", "MySQLAPIQueryError",
     "MySQLAPIDeleteError"}

Family(op) ==
    IF op \in {"add_data", "add_data_multiple"} THEN "MySQLAPIAddError"
    ELSE IF op \in {"update_data", "update_column_values"} THEN "MySQLAPIUpdateError"
    ELSE IF op \in {"delete_all_data", "delete_data_by_id"} THEN "MySQLAPIDeleteError"
    ELSE "MySQLAPIQueryError"

Count(q, e) == Cardinality({ i \in 1..Len(q) : q[i] = e })

\* C1: a mutating call that ends in an error leaves the rows of the table
\* exactly as they were before the call (all of its effects or none).
C1_AllOrNothing ==
    [][(call'.op \in Mutating /\ outcome' # "ok") => rows' = rows]_vars

\* C2: an error raised for a backend failure is of the error class of the
\* operation's family (add, update, query, delete), and a DatabaseError never
\* reaches the caller untranslated.
C2_ErrorFamily ==
    (call # NoCall /\ outcome \in TypedErrors \cup {"DatabaseError"})
        => outcome = Family(call.op)

\* C3: between calls the Session is closed with no transaction in progress,
\* and every call, whatever its outcome, acquired exactly one Session as its
\* first step and closed it as its last.
C3_SessionReleased ==
    /\ session = [open |-> FALSE, txn |-> FALSE, work |-> <<>>]
    /\ call # NoCall =>
        /\ Count(events, "acquire") = 1
        /\ Count(events, "close") = 1
        /\ events[1] = "acquire"
        /\ events[Len(events)] = "close"

C3_Witness ==
    /\ call.op \in {"add_data_multiple", "delete_data_by_id", "query_data_with_date"}
    /\ outcome \in {"TypeError", "ValueError"}
    /\ rows # <<>>
    /\ ~session.open

\* record ids that int() rejects
MalformedIds ==
    { Str(<<>>),
      Str(<<"n", "o", "t", "-", "a", "-", "n", "u", "m", "b", "e", "r">>) }

MalformedIdCall(c) ==
    c.op = "delete_data_by_id" /\ c.args.record_id \in MalformedIds

\* C4 as stated: delete_data_by_id with an id that is not an integer fails
\* with an error other than MySQLAPIDeleteError, without acquiring a Session
\* at any point of the call, and leaves the table unchanged.
C4_NoSessionOpened ==
    [][MalformedIdCall(call') =>
        /\ outcome' \notin {"ok", "MySQLAPIDeleteError"}
        /\ Count(events', "acquire") = 0
        /\ rows' = rows]_vars

\* C4 amended: delete_data_by_id with an id that is not an integer fails with
\* ValueError; the call acquires its Session, issues no commit or rollback,
\* closes the Session, and leaves the table and its counter unchanged.
C4_ValueErrorSessionClosed ==
    [][MalformedIdCall(call') =>
        /\ outcome' = "ValueError"
        /\ events' = <<"acquire", "close">>
        /\ ~session'.open /\ ~session'.txn
        /\ rows' = rows
        /\ autoinc' = autoinc]_vars

C4_Witness ==
    /\ MalformedIdCall(call)
    /\ outcome = "ValueError"
    /\ rows # <<>>

\* date texts that are not a calendar day written as YYYY-MM-DD
MalformedDates ==
    { <<"2", "0", "2", "4", "-", "0", "2", "-", "3", "0">>,
      <<"1", "5", "/", "0", "1", "/", "2", "0", "2", "4">>,
      <<"t", "o", "d", "a", "y">> }

\* C5: query_data_with_date with a created_at filter whose value does not
\* parse as YYYY-MM-DD fails with MySQLAPIQueryError.
C5_MalformedDateIsQueryError ==
    (/\ call.op = "query_data_with_date"
     /\ \E i \in 1..Len(call.args.filters) :
            /\ call.args.filters[i][1] = "created_at"
            /\ call.args.filters[i][2] \in MalformedDates)
        => outcome = "MySQLAPIQueryError"

\* rows of t whose column field has one of the values of the list vs
RowsIn(t, field, vs) ==
    SelectSeq(t, LAMBDA r : \E i \in 1..Len(vs) : r[field] = vs[i])

\* rows of t that satisfy every exact-match filter
RowsMatching(t, filters) ==
    SelectSeq(t, LAMBDA r :
        \A i \in 1..Len(filters) : r[filters[i][1]] = filters[i][2])

\* C6 as stated: query_data_by_values returns the rows whose field is one of
\* values and that satisfy the filters; with values None or the empty list
\* the membership clause is skipped and the result is that of query_data_all.
C6_EmptyValuesSkipped ==
    (/\ call.op = "query_data_by_values"
     /\ outcome = "ok"
     /\ ~call.args.field.isNone)
        => result =
             IF call.args.values.isNone \/ call.args.values.val = <<>>
             THEN RowsMatching(rows, call.args.filters)
             ELSE RowsMatching(RowsIn(rows, call.args.field.val,
                                      call.args.values.val),
                               call.args.filters)

\* C6 amended: query_data_by_values returns the rows whose field is one of
\* values and that satisfy the filters; only with values None is the
\* membership clause skipped (the result is that of query_data_all); with the
\* empty list the result is empty.
C6_NoneValuesSkipped ==
    (/\ call.op = "query_data_by_values"
     /\ outcome = "ok"
     /\ ~call.args.field.isNone)
        => /\ result =
                IF call.args.values.isNone
                THEN RowsMatching(rows, call.args.filters)
                ELSE RowsMatching(RowsIn(rows, call.args.field.val,
                                         call.args.values.val),
                                  call.args.filters)
           /\ call.args.values.isNone =>
                result = query_data_all_run(Ctx, call.args.filters, "none").result
           /\ (~call.args.values.isNone /\ call.args.values.val = <<>>) =>
                result = <<>>

C6_Witness ==
    /\ call.op = "query_data_by_values"
    /\ outcome = "ok"
    /\ ~call.args.field.isNone
    /\ ~call.args.values.isNone
    /\ call.args.values.val = <<>>
    /\ call.args.filters = <<>>
    /\ Len(rows) >= 2
    /\ result = <<>>

\* C7: query_data_page with page >= 1 and page_size >= 1 returns the rows at
\* positions (page-1)*page_size + 1 .. (page-1)*page_size + page_size of the
\* filtered result set, in backend order, as far as the result set reaches.
C7_PageWindow ==
    (call.op = "query_data_page" /\ outcome = "ok") =>
        LET f == RowsMatching(rows, call.args.filters)
            first == (call.args.page - 1) * call.args.page_size
            n == Max(0, Min(call.args.page_size, Len(f) - first))
        IN  /\ Len(result) = n
            /\ \A i \in 1..n : result[i] = f[first + i]

C7_Witness ==
    /\ call.op = "query_data_page"
    /\ outcome = "ok"
    /\ call.args.page = 2
    /\ call.args.page_size = 2
    /\ call.args.filters = <<>>
    /\ Len(rows) = 3
    /\ result = <<rows[3]>>

\* C8: after a successful delete_all_data, query_data_all with no filter
\* returns an empty result and the next add_data without an explicit id
\* stores its row under id 1.
C8_DeleteAllResets ==
    (call.op = "delete_all_data" /\ outcome = "ok") =>
        /\ query_data_all_run(Ctx, <<>>, "none").outcome = "ok"
        /\ query_data_all_run(Ctx, <<>>, "none").result = <<>>
        /\ \A d \in [status : Status, created_at : CreatedAts] :
              /\ add_data_run(Ctx, d, "none").outcome = "ok"
              /\ add_data_run(Ctx, d, "none").c.db =
                   <<[id |-> 1, status |-> d.status, created_at |-> d.created_at]>>

C8_Witness ==
    /\ call.op = "delete_all_data"
    /\ outcome = "ok"
    /\ rows = <<>>
    /\ autoinc = 1

\* C9: a call that matches no row is not an error and changes no row:
\* update_data whose key value matches no row and delete_data_by_id of an
\* absent id leave every row unchanged and, unless the backend fails,
\* return normally; query_data_one with filters matching no row returns None.
C9_ZeroMatchNoOp ==
    [][/\ (/\ call'.op = "update_data"
           /\ \A i \in 1..Len(rows) : rows[i][call'.args.key] # call'.args.key_value)
          => /\ rows' = rows
             /\ injected' = "none" => outcome' = "ok"
       /\ (/\ call'.op = "delete_data_by_id"
           /\ call'.args.record_id.kind = "int"
           /\ \A i \in 1..Len(rows) : rows[i].id # call'.args.record_id.num)
          => /\ rows' = rows
             /\ injected' = "none" => outcome' = "ok"
       /\ (/\ call'.op = "query_data_one"
           /\ injected' = "none"
           /\ RowsMatching(rows, call'.args.filters) = <<>>)
          => /\ outcome' = "ok"
             /\ result' = PyNone
             /\ rows' = rows]_vars

C9_Witness ==
    /\ call.op = "update_data"
    /\ call.args.key = "status"
    /\ outcome = "ok"
    /\ Len(rows) >= 2
    /\ \A i \in 1..Len(rows) :
          /\ rows[i].status # call.args.key_value
          /\ rows[i].status # call.args.update_values.status

\* C10: after a successful add_data of a record, query_data_one by the
\* record's primary key returns a row equal to the record.
C10_InsertThenQueryOne ==
    (call.op = "add_data" /\ outcome = "ok") =>
        \E pk \in 1..MaxId :
            /\ "id" \in DOMAIN call.args.data => pk = call.args.data.id
            /\ query_data_one_run(Ctx, << <<"id", pk>> >>, "none").outcome = "ok"
            /\ query_data_one_run(Ctx, << <<"id", pk>> >>, "none").result =
                 [id |-> pk, status |-> call.args.data.status,
                  created_at |-> call.args.data.created_at]

C10_Witness ==
    /\ call.op = "add_data"
    /\ outcome = "ok"
    /\ "id" \in DOMAIN call.args.data
    /\ Len(rows) >= 2
    /\ rows[Len(rows)].id = call.args.data.id

====
